---- MODULE Spec2Model ----
(***************************************************************************)
(* State-machine model of notebook/01_financial-analysis-notebook.ipynb:   *)
(* the cells run top to bottom (setup, load_data, categorize_transactions, *)
(* generate_financial_summary, generate_personalized_advice,               *)
(* create_pdf_report); an exception raised in a cell ends the run.         *)
(*                                                                         *)
(* Text is a sequence of one-character strings.  A pandas missing value    *)
(* (NaN) in a text column is the one-element sequence <<"NaN">>, which is  *)
(* no text because "NaN" is not a character.  Amounts are whole units.     *)
(***************************************************************************)
EXTENDS Integers, Sequences, FiniteSets, TLC

VARIABLES
    pc,                 \* the cell about to run, or "done" / "failed"
    error,              \* the exception that ended the run, "" if none
    api_key,            \* os.getenv("OPENAI_API_KEY")
    use_google_sheets,  \* os.getenv("USE_GOOGLE_SHEETS") as set in the environment
    csv_exists,         \* os.path.exists('../data/data.csv')
    source_rows,        \* the records held by the configured source
    output_file,        \* what is stored at output_path
    df_state,           \* "unbound", "nocolumns" (DataFrame of no records) or "table"
    df,                 \* the rows of the DataFrame
    df0,                \* the rows as load_data returned them
    pending,            \* row labels categorize_transactions has still to visit
    requests,           \* every ChatCompletion.create call issued, in order
    last_response,      \* content of the latest classification completion
    total_spent,
    total_income,
    category_spending,
    summary,
    advice,
    html_summary,       \* argument {0} of the template's format call
    html_advice,        \* argument {1} of the template's format call
    sources_read,       \* the sources load_data consulted
    render_calls        \* number of pdfkit.from_string calls

vars == <<pc, error, api_key, use_google_sheets, csv_exists, source_rows,
          output_file, df_state, df, df0, pending, requests, last_response,
          total_spent, total_income, category_spending, summary, advice,
          html_summary, html_advice, sources_read, render_calls>>

----------------------------------------------------------------------------
(* Bounds of the model *)

MaxRows == 2        \* rows of a loaded source
MaxAggRows == 2     \* rows of a table handed directly to the aggregation
MaxAmount == 2      \* largest Amount
MaxRespLen == 2     \* characters of a classification completion
MaxTextLen == 5     \* characters of summary and advice together, handed to the renderer

----------------------------------------------------------------------------
(* Text *)

NaN == <<"NaN">>
Unset == "<unset>"          \* os.getenv of a variable that is not set: None

Whitespace == {" ", "\n"}

\* str.replace(old, new): leftmost non-overlapping occurrences, left to right
RECURSIVE replace(_, _, _)
replace(s, old, new) ==
    IF Len(s) < Len(old) THEN s
    ELSE IF SubSeq(s, 1, Len(old)) = old
         THEN new \o replace(SubSeq(s, Len(old) + 1, Len(s)), old, new)
         ELSE <<Head(s)>> \o replace(Tail(s), old, new)

RECURSIVE lstrip(_)
lstrip(s) == IF s # <<>> /\ Head(s) \in Whitespace THEN lstrip(Tail(s)) ELSE s

RECURSIVE rstrip(_)
rstrip(s) ==
    IF s # <<>> /\ s[Len(s)] \in Whitespace THEN rstrip(SubSeq(s, 1, Len(s) - 1)) ELSE s

\* str.strip()
strip(s) == rstrip(lstrip(s))

\* str.lower() on the values the flag takes
lower(s) == CASE s = "True" -> "true" [] s = "TRUE" -> "true" [] OTHER -> s

\* os.getenv(name, default)
getenv(value, default) == IF value = Unset THEN default ELSE value

TextsUpTo(alphabet, n) == UNION {[1..k -> alphabet] : k \in 0..n}

----------------------------------------------------------------------------
(* The transaction table *)

Row(d, c, f, a) == [Description |-> d, Category |-> c, IncomeExpense |-> f, Amount |-> a]

\* pd.read_csv with its default na_values: an empty field is a missing value
read_csv(rows) ==
    [i \in 1..Len(rows) |->
        [rows[i] EXCEPT !.Description = IF @ = <<>> THEN NaN ELSE @,
                        !.Category = IF @ = <<>> THEN NaN ELSE @]]

\* load_from_csv(): the existence check, then pd.read_csv
load_from_csv_missing_ok(exists, rows) ==
    IF exists
    THEN [err |-> "", state |-> "table", rows |-> read_csv(rows), read |-> {"csv"}]
    ELSE [err |-> "", state |-> "table", rows |-> <<>>, read |-> {}]

load_from_csv(exists, rows) ==
    IF ~exists
    THEN [err |-> "FileNotFoundError", state |-> "unbound", rows |-> <<>>, read |-> {}]
    ELSE [err |-> "", state |-> "table", rows |-> read_csv(rows), read |-> {"csv"}]

\* load_from_google_sheets(): sheet.get_all_records() keeps an empty cell as '';
\* pd.DataFrame([]) has no columns.  ok = the service answered.
load_from_google_sheets(ok, rows) ==
    IF ~ok
    THEN [err |-> "SheetError", state |-> "unbound", rows |-> <<>>, read |-> {"sheet"}]
    ELSE [err |-> "", state |-> IF rows = <<>> THEN "nocolumns" ELSE "table",
          rows |-> rows, read |-> {"sheet"}]

\* the condition of load_data()
use_sheets(flag) == lower(getenv(flag, "false")) = "true"

\* the condition of the setup cell: `not openai.api_key`
api_key_missing_never(key) == FALSE

api_key_missing(key) == key = Unset \/ key = ""

\* The notebook's cells in order; an exception is caught nowhere and ends the run.
next_cell_swallow(cell, raised) ==
    CASE cell = "setup" -> IF raised THEN "failed" ELSE "load_data"
      [] cell = "load_data" -> IF raised THEN "failed" ELSE "categorize_transactions"
      [] cell = "categorize_transactions" -> "generate_financial_summary"
      [] cell = "generate_financial_summary" -> "generate_personalized_advice"
      [] cell = "generate_personalized_advice" -> "create_pdf_report"
      [] cell = "create_pdf_report" -> IF raised THEN "failed" ELSE "done"

next_cell_skip_advice(cell, raised) ==
    IF raised THEN "failed"
    ELSE CASE cell = "setup" -> "load_data"
           [] cell = "load_data" -> "categorize_transactions"
           [] cell = "categorize_transactions" -> "generate_financial_summary"
           [] cell = "generate_financial_summary" -> "create_pdf_report"
           [] cell = "generate_personalized_advice" -> "create_pdf_report"
           [] cell = "create_pdf_report" -> "done"

next_cell(cell, raised) ==
    IF raised THEN "failed"
    ELSE CASE cell = "setup" -> "load_data"
           [] cell = "load_data" -> "categorize_transactions"
           [] cell = "categorize_transactions" -> "generate_financial_summary"
           [] cell = "generate_financial_summary" -> "generate_personalized_advice"
           [] cell = "generate_personalized_advice" -> "create_pdf_report"
           [] cell = "create_pdf_report" -> "done"

Indices(d) == [i \in 1..Len(d) |-> i]

RECURSIVE Reverse(_)
Reverse(s) == IF s = <<>> THEN <<>> ELSE Reverse(Tail(s)) \o <<Head(s)>>

\* the labels of df[df['Category'] == ''], in the order iterrows() yields them
empty_category_index_all(d) == Indices(d)

empty_category_index_reversed(d) ==
    Reverse(SelectSeq(Indices(d), LAMBDA i : d[i].Category = <<>>))

empty_category_index(d) == SelectSeq(Indices(d), LAMBDA i : d[i].Category = <<>>)

\* completion.choices[0].message.content.strip() in categorize_transaction
categorize_transaction_lstrip(content) == lstrip(content)

categorize_transaction(content) == strip(content)

RECURSIVE amount_sum(_)
amount_sum(rows) == IF rows = <<>> THEN 0 ELSE Head(rows).Amount + amount_sum(Tail(rows))

\* df[df['Income/Expense'] == 'Expense']
expense_rows(d) == SelectSeq(d, LAMBDA r : r.IncomeExpense = "Expense")

\* df[df['Income/Expense'] == 'Income']
income_rows_not_expense(d) == SelectSeq(d, LAMBDA r : r.IncomeExpense # "Expense")

income_rows(d) == SelectSeq(d, LAMBDA r : r.IncomeExpense = "Income")

\* .groupby('Category')['Amount'].sum(): groupby drops the rows whose key is missing
groupby_category_sum(rows) ==
    LET keys == {rows[i].Category : i \in 1..Len(rows)} \ {NaN}
    IN  [c \in keys |-> amount_sum(SelectSeq(rows, LAMBDA r : r.Category = c))]

H3 == <<"<", "h", "3", ">">>
BR == <<"<", "b", "r", ">">>

\* text.replace('**', '').replace('###', '<h3>').replace('\n', '<br>')
pdf_markup_headings_first(text) ==
    replace(replace(replace(text, <<"#", "#", "#">>, H3), <<"*", "*">>, <<>>), <<"\n">>, BR)

pdf_markup(text) ==
    replace(replace(replace(text, <<"*", "*">>, <<>>), <<"#", "#", "#">>, H3), <<"\n">>, BR)

\* one ChatCompletion.create call: what the user message carries, and for a
\* classification the label of the row whose iteration issued it (0 otherwise)
Request(kind, index, description, income, spent, spending, table) ==
    [kind |-> kind, index |-> index, description |-> description, income |-> income,
     spent |-> spent, spending |-> spending, table |-> table]

----------------------------------------------------------------------------
(* Inputs *)

\* what the three descriptions of the sample ledger are: direction and amount
SampleDescriptions == {<<"s">>, <<"g">>, <<"w">>}
sample_flag(d) == IF d = <<"s">> THEN "Income" ELSE "Expense"
sample_amount(d) == IF d = <<"w">> THEN 1 ELSE 2

\* a record of the source: the Category cell is blank or filled
SourceRowSet ==
    {Row(d, c, sample_flag(d), sample_amount(d)) :
        d \in SampleDescriptions, c \in {<<>>, <<"R">>}}

SourceTables == UNION {[1..k -> SourceRowSet] : k \in 0..MaxRows}

\* a DataFrame as generate_financial_summary may receive it
AggRowSet ==
    {Row(<<"d">>, c, f, a) :
        c \in {<<"A">>, <<"B">>, <<>>, NaN},
        f \in {"Income", "Expense", "Transfer"},
        a \in 1..MaxAmount}

AggTables == UNION {[1..k -> AggRowSet] : k \in 0..MaxAggRows}

\* completions of the text-generation service
ClassResponses == TextsUpTo({" ", "R"}, MaxRespLen)
SummaryResponses == {<<"*", "*", "a", "\n">>, <<"#", "#", "#", "a">>}
AdviceResponses == {<<"a", "\n">>, <<"#", "*", "*", "#", "#">>}

\* the arguments of create_pdf_report
MarkupAlphabet == {"*", "#", "\n", "a"}
TextPairs ==
    UNION {[1..j -> MarkupAlphabet] \X [1..(k - j) -> MarkupAlphabet] :
              <<j, k>> \in {<<j, k>> \in (0..MaxTextLen) \X (0..MaxTextLen) : j <= k}}

NoSpending == [c \in {} |-> 0]

Blank ==
    /\ error = ""
    /\ df0 = <<>>
    /\ pending = <<>>
    /\ requests = <<>>
    /\ last_response = <<>>
    /\ total_spent = 0
    /\ total_income = 0
    /\ category_spending = NoSpending
    /\ html_summary = <<>>
    /\ html_advice = <<>>
    /\ sources_read = {}
    /\ render_calls = 0

\* the process starts: the environment is whatever the user configured
Init ==
    /\ pc = "setup"
    /\ api_key \in {Unset, "", "sk"}
    /\ use_google_sheets \in {Unset, "true", "True", "false"}
    /\ csv_exists \in BOOLEAN
    /\ source_rows \in SourceTables
    /\ output_file \in {"absent", "old"}
    /\ df_state = "unbound"
    /\ df = <<>>
    /\ summary = <<>>
    /\ advice = <<>>
    /\ Blank

----------------------------------------------------------------------------
(* The cells *)

\* setup cell: raise ValueError unless the API key is set
setup ==
    /\ pc = "setup"
    /\ pc' = next_cell("setup", api_key_missing(api_key))
    /\ error' = IF api_key_missing(api_key) THEN "ValueError" ELSE ""
    /\ UNCHANGED <<api_key, use_google_sheets, csv_exists, source_rows, output_file,
                   df_state, df, df0, pending, requests, last_response, total_spent,
                   total_income, category_spending, summary, advice, html_summary,
                   html_advice, sources_read, render_calls>>

\* df = load_data()
load_data ==
    /\ pc = "load_data"
    /\ \E ok \in BOOLEAN :
         LET r == IF use_sheets(use_google_sheets)
                  THEN load_from_google_sheets(ok, source_rows)
                  ELSE load_from_csv(csv_exists, source_rows)
         IN  /\ pc' = next_cell("load_data", r.err # "")
             /\ error' = r.err
             /\ df_state' = r.state
             /\ df' = r.rows
             /\ df0' = r.rows
             /\ sources_read' = sources_read \cup r.read
    /\ UNCHANGED <<api_key, use_google_sheets, csv_exists, source_rows, output_file,
                   pending, requests, last_response, total_spent, total_income,
                   category_spending, summary, advice, html_summary, html_advice,
                   render_calls>>

\* categorize_transactions(df), entry: evaluate df[df['Category'] == ''] once
categorize_transactions ==
    /\ pc = "categorize_transactions"
    /\ IF df_state = "nocolumns"
       THEN /\ pc' = next_cell("categorize_transactions", TRUE)
            /\ error' = "KeyError"
            /\ pending' = pending
       ELSE /\ pc' = "categorize_loop"
            /\ error' = error
            /\ pending' = empty_category_index(df)
    /\ UNCHANGED <<api_key, use_google_sheets, csv_exists, source_rows, output_file,
                   df_state, df, df0, requests, last_response, total_spent,
                   total_income, category_spending, summary, advice, html_summary,
                   html_advice, sources_read, render_calls>>

\* one iteration of the loop: categorize_transaction(row['Description']), df.at[...]
categorize_step ==
    /\ pc = "categorize_loop"
    /\ pending # <<>>
    /\ LET index == Head(pending)
       IN  /\ requests' = Append(requests,
                  Request("classify", index, df[index].Description, 0, 0, NoSpending, <<>>))
           /\ \/ /\ pc' = next_cell("categorize_transactions", TRUE)
                 /\ error' = "ServiceError"
                 /\ UNCHANGED <<df, pending, last_response>>
              \/ \E content \in ClassResponses :
                    /\ last_response' = content
                    /\ df' = [df EXCEPT ![index].Category = categorize_transaction(content)]
                    /\ pending' = Tail(pending)
                    /\ UNCHANGED <<pc, error>>
    /\ UNCHANGED <<api_key, use_google_sheets, csv_exists, source_rows, output_file,
                   df_state, df0, total_spent, total_income, category_spending,
                   summary, advice, html_summary, html_advice, sources_read,
                   render_calls>>

\* the loop is exhausted: return df
categorize_return ==
    /\ pc = "categorize_loop"
    /\ pending = <<>>
    /\ pc' = next_cell("categorize_transactions", FALSE)
    /\ UNCHANGED <<error, api_key, use_google_sheets, csv_exists, source_rows,
                   output_file, df_state, df, df0, pending, requests, last_response,
                   total_spent, total_income, category_spending, summary, advice,
                   html_summary, html_advice, sources_read, render_calls>>

\* summary = generate_financial_summary(df): the three aggregates, then one request
generate_financial_summary ==
    /\ pc = "generate_financial_summary"
    /\ total_spent' = amount_sum(expense_rows(df))
    /\ total_income' = amount_sum(income_rows(df))
    /\ category_spending' = groupby_category_sum(expense_rows(df))
    /\ requests' = Append(requests,
           Request("summary", 0, <<>>, total_income', total_spent', category_spending', <<>>))
    /\ \/ /\ pc' = next_cell("generate_financial_summary", TRUE)
          /\ error' = "ServiceError"
          /\ UNCHANGED summary
       \/ \E content \in SummaryResponses :
             /\ summary' = strip(content)
             /\ pc' = next_cell("generate_financial_summary", FALSE)
             /\ UNCHANGED error
    /\ UNCHANGED <<api_key, use_google_sheets, csv_exists, source_rows, output_file,
                   df_state, df, df0, pending, last_response, advice, html_summary,
                   html_advice, sources_read, render_calls>>

\* advice = generate_personalized_advice(df, ...): one request carrying the table
generate_personalized_advice ==
    /\ pc = "generate_personalized_advice"
    /\ requests' = Append(requests, Request("advice", 0, <<>>, 0, 0, NoSpending, df))
    /\ \/ /\ pc' = next_cell("generate_personalized_advice", TRUE)
          /\ error' = "ServiceError"
          /\ UNCHANGED advice
       \/ \E content \in AdviceResponses :
             /\ advice' = content
             /\ pc' = next_cell("generate_personalized_advice", FALSE)
             /\ UNCHANGED error
    /\ UNCHANGED <<api_key, use_google_sheets, csv_exists, source_rows, output_file,
                   df_state, df, df0, pending, last_response, total_spent,
                   total_income, category_spending, summary, html_summary,
                   html_advice, sources_read, render_calls>>

\* create_pdf_report(summary, advice): format the template, then pdfkit.from_string.
\* The renderer is an external program: it succeeds, is not installed, or fails
\* during the conversion, having written nothing or part of the file.
create_pdf_report ==
    /\ pc = "create_pdf_report"
    /\ html_summary' = pdf_markup(summary)
    /\ html_advice' = pdf_markup(advice)
    /\ render_calls' = render_calls + 1
    /\ \/ /\ output_file' = "pdf"
          /\ pc' = next_cell("create_pdf_report", FALSE)
          /\ UNCHANGED error
       \/ /\ pc' = next_cell("create_pdf_report", TRUE)
          /\ error' = "RendererUnavailable"
          /\ UNCHANGED output_file
       \/ /\ pc' = next_cell("create_pdf_report", TRUE)
          /\ error' = "ConversionError"
          /\ output_file' \in {output_file, "partial"}
    /\ UNCHANGED <<api_key, use_google_sheets, csv_exists, source_rows, df_state, df,
                   df0, pending, requests, last_response, total_spent, total_income,
                   category_spending, summary, advice, sources_read>>

Next ==
    \/ setup
    \/ load_data
    \/ categorize_transactions
    \/ categorize_step
    \/ categorize_return
    \/ generate_financial_summary
    \/ generate_personalized_advice
    \/ create_pdf_report

Spec == Init /\ [][Next]_vars

\* generate_financial_summary applied to an arbitrary table
InitAgg ==
    /\ pc = "generate_financial_summary"
    /\ api_key = "sk"
    /\ use_google_sheets = Unset
    /\ csv_exists = TRUE
    /\ source_rows = <<>>
    /\ output_file = "absent"
    /\ df_state = "table"
    /\ df \in AggTables
    /\ summary = <<>>
    /\ advice = <<>>
    /\ Blank

NextAgg == generate_financial_summary

SpecAgg == InitAgg /\ [][NextAgg]_vars

\* create_pdf_report applied to arbitrary summary and advice strings
InitPdf ==
    /\ pc = "create_pdf_report"
    /\ api_key = "sk"
    /\ use_google_sheets = Unset
    /\ csv_exists = TRUE
    /\ source_rows = <<>>
    /\ output_file \in {"absent", "old"}
    /\ df_state = "table"
    /\ df = <<>>
    /\ \E p \in TextPairs : summary = p[1] /\ advice = p[2]
    /\ Blank

NextPdf == create_pdf_report

SpecPdf == InitPdf /\ [][NextPdf]_vars

----------------------------------------------------------------------------
(* Vocabulary of the properties *)

RowsOf(t) == 1..Len(t)

RECURSIVE AmountOver(_, _)
AmountOver(t, S) ==
    IF S = {} THEN 0
    ELSE LET i == CHOOSE i \in S : TRUE IN t[i].Amount + AmountOver(t, S \ {i})

RECURSIVE MapSum(_)
MapSum(f) ==
    IF DOMAIN f = {} THEN 0
    ELSE LET c == CHOOSE c \in DOMAIN f : TRUE
         IN  f[c] + MapSum([d \in DOMAIN f \ {c} |-> f[d]])

Flagged(t, flag) == {i \in RowsOf(t) : t[i].IncomeExpense = flag}

\* the aggregation step has run
Aggregated == \E k \in 1..Len(requests) : requests[k].kind = "summary"

ClassifyRequests == SelectSeq(requests, LAMBDA r : r.kind = "classify")

\* the classification pass has returned
PassReturned ==
    pc \in {"generate_financial_summary", "generate_personalized_advice",
            "create_pdf_report", "done"}
       \/ (pc = "failed" /\ Aggregated)

----------------------------------------------------------------------------
(* C1: after the aggregation step, total expense is the sum of Amount over *)
(* exactly the rows flagged 'Expense', total income the sum over exactly   *)
(* the rows flagged 'Income', and a row with any other flag adds to        *)
(* neither total.                                                          *)
C1_TotalsByFlag ==
    Aggregated =>
        /\ total_spent = AmountOver(df, Flagged(df, "Expense"))
        /\ total_income = AmountOver(df, Flagged(df, "Income"))
        /\ total_spent + total_income
             + AmountOver(df, RowsOf(df) \ (Flagged(df, "Expense") \cup Flagged(df, "Income")))
           = AmountOver(df, RowsOf(df))

C1_Witness ==
    /\ Aggregated
    /\ Len(df) = 2
    /\ df[1].IncomeExpense = "Transfer"
    /\ df[2].IncomeExpense = "Expense"
    /\ total_spent = df[2].Amount
    /\ total_income = 0

(* C2, as claimed: for every table, also one with Expense rows of missing  *)
(* or empty Category, the values of the per-category map add up to total   *)
(* expense and the map has one entry per distinct category among the       *)
(* Expense rows.                                                           *)
C2_MapMatchesTotal ==
    Aggregated =>
        /\ MapSum(category_spending) = total_spent
        /\ DOMAIN category_spending = {df[i].Category : i \in Flagged(df, "Expense")}

(* C3, as claimed: once categorize_transactions has returned, every request *)
(* having succeeded, each transaction whose Category was empty when loaded  *)
(* (from the file or from the sheet) has a non-empty Category.              *)
C3_EmptyGetsCategory ==
    PassReturned =>
        \A i \in RowsOf(df) :
            source_rows[i].Category = <<>> => df[i].Category \notin {<<>>, NaN}

(* C4: categorize_transactions issues no classification request for a      *)
(* transaction whose Category is non-empty when the pass starts, and that   *)
(* transaction's Category keeps its value through the pass.                 *)
C4_NonEmptyUntouched ==
    /\ \A k \in 1..Len(requests) :
          requests[k].kind = "classify" =>
              /\ requests[k].index \in RowsOf(df0)
              /\ df0[requests[k].index].Category = <<>>
    /\ \A i \in RowsOf(df0) :
          df0[i].Category # <<>> => df[i].Category = df0[i].Category

C4_Witness ==
    /\ PassReturned
    /\ Len(df0) = 2
    /\ df0[1].Category = <<"R">>
    /\ df0[2].Category = <<>>
    /\ Len(ClassifyRequests) = 1
    /\ df[1].Category = <<"R">>

C6_NoKeyNoWork ==
    api_key \in {Unset, ""} =>
        /\ pc \in {"setup", "failed"}
        /\ pc = "failed" => error = "ValueError"
        /\ sources_read = {}
        /\ df_state = "unbound"
        /\ requests = <<>>
        /\ render_calls = 0
        /\ output_file \in {"absent", "old"}

C6_Witness == api_key = Unset /\ pc = "failed" /\ error = "ValueError"

(* C7: when the flag selects the file source and the file is absent,        *)
(* load_data fails with a not-found error and yields no table, the sheet    *)
(* is not consulted instead, and no later stage runs.                       *)
C7_MissingFileIsFatal ==
    (/\ use_google_sheets \notin {"true", "True"}
     /\ ~csv_exists
     /\ api_key = "sk"
     /\ pc \notin {"setup", "load_data"}) =>
        /\ pc = "failed"
        /\ error = "FileNotFoundError"
        /\ df_state = "unbound"
        /\ df = <<>>
        /\ sources_read = {}
        /\ requests = <<>>
        /\ render_calls = 0
        /\ output_file \in {"absent", "old"}

C7_Witness ==
    /\ use_google_sheets = "false"
    /\ ~csv_exists
    /\ source_rows # <<>>
    /\ pc = "failed"
    /\ error = "FileNotFoundError"

(* C8: a failed classification, summary or advice request ends the run at   *)
(* that failure: the failed request is the last one issued (no retry, no    *)
(* further request), the renderer is not invoked, no document is written,   *)
(* and nothing runs once the run has failed.                                *)
C8_ServiceFailureIsFatal ==
    /\ [](error = "ServiceError" =>
            /\ pc = "failed"
            /\ requests # <<>>
            /\ render_calls = 0
            /\ output_file \in {"absent", "old"})
    /\ [][pc = "failed" => FALSE]_vars
    /\ [][error' = "ServiceError" =>
            /\ Len(requests') = Len(requests) + 1
            /\ pc' = "failed"]_vars

C8_Witness ==
    /\ error = "ServiceError"
    /\ pc = "failed"
    /\ Len(requests) = 2
    /\ requests[1].kind = "classify"
    /\ requests[2].kind = "classify"

StageRank(cell) ==
    CASE cell = "setup" -> 0
      [] cell = "load_data" -> 1
      [] cell \in {"categorize_transactions", "categorize_loop"} -> 2
      [] cell = "generate_financial_summary" -> 3
      [] cell = "generate_personalized_advice" -> 4
      [] cell = "create_pdf_report" -> 5
      [] cell = "done" -> 6

KindRank(kind) ==
    CASE kind = "classify" -> 2 [] kind = "summary" -> 3 [] kind = "advice" -> 4

CountKind(kind) == Len(SelectSeq(requests, LAMBDA r : r.kind = kind))

(* C9: the stages run in the order Loader, Classifier, Aggregator, Summary  *)
(* Generator, Advice Generator, Renderer, each starting when the previous   *)
(* one has finished; the summary and the advice request are issued once     *)
(* each, after every classification request has returned; the renderer is   *)
(* invoked only once both texts have been received.                         *)
C9_LinearPipeline ==
    /\ [][pc' # "failed" =>
            /\ pc # "failed"
            /\ StageRank(pc') \in {StageRank(pc), StageRank(pc) + 1}]_vars
    /\ [](/\ \A j, k \in 1..Len(requests) :
                j < k => KindRank(requests[j].kind) <= KindRank(requests[k].kind)
          /\ CountKind("summary") <= 1
          /\ CountKind("advice") <= 1
          /\ CountKind("summary") = 1 => pending = <<>> /\ sources_read # {}
          /\ CountKind("advice") = 1 => CountKind("summary") = 1
          /\ pc # "failed" =>
                /\ (StageRank(pc) >= 2) = (sources_read # {})
                /\ (StageRank(pc) >= 4) = (CountKind("summary") = 1)
                /\ (StageRank(pc) >= 5) = (CountKind("advice") = 1)
                /\ (StageRank(pc) >= 6) = (render_calls = 1)
          /\ render_calls <= 1
          /\ render_calls = 1 =>
                CountKind("summary") = 1 /\ CountKind("advice") = 1)

C9_Witness ==
    /\ pc = "done"
    /\ render_calls = 1
    /\ Len(requests) = 4
    /\ requests[1].kind = "classify"
    /\ requests[2].kind = "classify"
    /\ requests[3].kind = "summary"
    /\ requests[4].kind = "advice"

Occurs(pattern, text) ==
    \E i \in 1..(Len(text) - Len(pattern) + 1) :
        SubSeq(text, i, i + Len(pattern) - 1) = pattern

\* scanning text from position i: each leftmost occurrence of old becomes new
RECURSIVE Substituted(_, _, _, _)
Substituted(text, i, old, new) ==
    IF i > Len(text) THEN <<>>
    ELSE IF i + Len(old) - 1 <= Len(text) /\ \A k \in 1..Len(old) : text[i + k - 1] = old[k]
         THEN new \o Substituted(text, i + Len(old), old, new)
         ELSE <<text[i]>> \o Substituted(text, i + 1, old, new)

ThreeSubstitutions(text) ==
    LET unbolded == Substituted(text, 1, <<"*", "*">>, <<>>)
        headed == Substituted(unbolded, 1, <<"#", "#", "#">>, <<"<", "h", "3", ">">>)
    IN  Substituted(headed, 1, <<"\n">>, <<"<", "b", "r", ">">>)

(* C10: the text create_pdf_report puts into the template is its input with *)
(* three literal substitutions applied in this order: every '**' removed,   *)
(* then every '###' replaced by '<h3>', then every line break replaced by   *)
(* '<br>'; summary and advice get the same treatment, and the embedded      *)
(* text holds no '**', no '###' and no line break.                          *)
C10_MarkupSubstitutions ==
    render_calls > 0 =>
        /\ html_summary = ThreeSubstitutions(summary)
        /\ html_advice = ThreeSubstitutions(advice)
        /\ \A embedded \in {html_summary, html_advice} :
              /\ ~Occurs(<<"*", "*">>, embedded)
              /\ ~Occurs(<<"#", "#", "#">>, embedded)
              /\ ~Occurs(<<"\n">>, embedded)

C10_Witness ==
    /\ render_calls > 0
    /\ summary = <<"#", "*", "*", "#", "#">>
    /\ html_summary = <<"<", "h", "3", ">">>
    /\ advice = <<>>

(* C11, as claimed: when the renderer is unavailable or the conversion     *)
(* fails, create_pdf_report fails without reporting success and the file    *)
(* at output_path is neither created nor overwritten: what was there stays, *)
(* and no partial output is left behind.                                    *)
C11_RenderFailureLeavesFile ==
    [][(pc = "create_pdf_report"
          /\ error' \in {"RendererUnavailable", "ConversionError"}) =>
            /\ pc' = "failed"
            /\ output_file' = output_file]_vars

\* the classification that returned last: its row, if the pass is still running
LatestClassified == requests[Len(requests)].index

\* stored is text without the whitespace before and after it
Trimmed(stored, text) ==
    \E i, j \in 0..Len(text) :
        /\ i + j <= Len(text)
        /\ stored = SubSeq(text, i + 1, Len(text) - j)
        /\ \A k \in 1..i : text[k] \in {" ", "\n"}
        /\ \A k \in (Len(text) - j + 1)..Len(text) : text[k] \in {" ", "\n"}
        /\ stored # <<>> => stored[1] \notin {" ", "\n"} /\ stored[Len(stored)] \notin {" ", "\n"}

(* C12, as claimed: the value stored in the Category of a classified        *)
(* transaction is exactly the text the service returned for its             *)
(* description, character for character, with no validation against the     *)
(* allowed labels and no other alteration.                                  *)
C12_StoredVerbatim ==
    (pc = "categorize_loop" /\ requests # <<>>) =>
        df[LatestClassified].Category = last_response

(* C12, amended: the value stored in the Category of a classified           *)
(* transaction is the text the service returned for its description with    *)
(* the whitespace before and after it removed, and otherwise character for  *)
(* character, with no validation against the allowed labels; the other      *)
(* rows keep their Category through the step.                               *)
C12_StoredStripped ==
    [][(pc = "categorize_loop" /\ pc' = "categorize_loop") =>
          LET index == requests'[Len(requests')].index
          IN  /\ Len(requests') = Len(requests) + 1
              /\ requests'[Len(requests')].description = df[index].Description
              /\ Trimmed(df'[index].Category, last_response')
              /\ \A i \in RowsOf(df) \ {index} : df'[i] = df[i]]_vars

C12_Witness ==
    /\ pc = "categorize_loop"
    /\ requests # <<>>
    /\ last_response = <<" ", "R">>
    /\ df[LatestClassified].Category = <<"R">>

====
